---------------------------- MODULE Spec2Model ----------------------------
(***************************************************************************)
(* The Gaia voice agent of src/main.py: one Conversation Context (the      *)
(* `messages` list), one seven-stage Pipeline, one PipelineTask driven by  *)
(* one PipelineRunner, and the two transport event handlers                *)
(* on_client_connected / on_client_disconnected.                           *)
(*                                                                         *)
(* The handlers, the seeding of the Context, the order of the stages and   *)
(* the runner are translated from src/main.py.  What a stage does with an  *)
(* item, and what cancel() does to the task, is code that main.py only     *)
(* calls; it is modelled from the written contracts of sections 4.1-4.3    *)
(* and 5 of the specification.                                             *)
(***************************************************************************)
EXTENDS Integers, Sequences, FiniteSets, TLC

(* ------------------------------ bounds -------------------------------- *)
\* connected events handled plus user utterances spoken in one run
MaxEvents == 2

(* --------------------------- program constants ------------------------ *)
\* `current_hour < 8`
BusinessOpen == 8
\* `current_hour > 17`
BusinessClose == 17

\* datetime.datetime.now().hour
Hours == 0..23
\* the `client` argument of the handlers
Clients == {"c1", "c2"}
\* what the user says, by utterance number
Utterances == <<"hello", "medicare", "life", "annuity">>

VARIABLES
    messages,    \* the Conversation Context: the list shared with OpenAILLMContext
    q,           \* q[i]: inbound queue of stage i; q[1] is the task's injection queue
    llm,         \* the generation in flight, with the snapshot it was given
    played,      \* what the output stage has sent to the speakers, in order
    taskState,   \* "running", "cancelling", "cancelled"
    runner,      \* "running" while runner.run(task) has not returned, then "done"
    awaiting,    \* connect handlers suspended at `await task.queue_frames(...)`
    live,        \* channel ids connected and not disconnected since
    nConn,       \* connected events handled
    nDisc,       \* disconnected events handled: 0, 1, or 2 for two and more
    nUtt         \* utterances spoken

vars == <<messages, q, llm, played, taskState, runner, awaiting, live,
          nConn, nDisc, nUtt>>

(* ------------------------------ messages ------------------------------ *)
Message(role, content) == [role |-> role, content |-> content]

\* the persona prompt the list is created with
PersonaMessage == Message("system", <<"persona">>)

OffHoursDirective == "after_hours"
BusinessHoursDirective == "other_agents_busy"

\* ContextMessage with the opening hour itself counted as off-hours
ContextMessageInclusive(current_hour) ==
    IF current_hour <= BusinessOpen \/ current_hour > BusinessClose
    THEN OffHoursDirective
    ELSE BusinessHoursDirective

\* the if/else on current_hour
ContextMessage(current_hour) ==
    IF current_hour < BusinessOpen \/ current_hour > BusinessClose
    THEN OffHoursDirective
    ELSE BusinessHoursDirective

\* the dict appended by the connect handler: an f-string around context_message
DirectiveMessage(context_message) ==
    Message("system", <<"start_intro", context_message, "ask_help">>)

\* text containment, on the phrases a content is made of
Contains(m, phrase) == \E i \in 1..Len(m.content) : m.content[i] = phrase

\* ContextAppend as messages.insert(0, m)
ContextInsertAtHead(ms, m) == <<m>> \o ms

\* messages.append(m)
ContextAppend(ms, m) == Append(ms, m)

CountRole(ms, role) == Cardinality({i \in 1..Len(ms) : ms[i].role = role})

IsPrefix(s, t) == Len(s) <= Len(t) /\ \A i \in 1..Len(s) : s[i] = t[i]

(* ------------------------------ pipeline ------------------------------ *)
\* Pipeline with stt listed behind the user aggregator
PipelineSttAfterAggregator ==
    <<"transport.input", "context_aggregator.user", "stt", "llm",
      "tts", "transport.output", "context_aggregator.assistant">>

\* Pipeline with the assistant aggregator listed ahead of transport.output()
PipelineAssistantBeforeOutput ==
    <<"transport.input", "stt", "context_aggregator.user", "llm",
      "tts", "context_aggregator.assistant", "transport.output">>

\* the list given to Pipeline(...), in order
Pipeline == <<"transport.input", "stt", "context_aggregator.user", "llm",
              "tts", "transport.output", "context_aggregator.assistant">>

Stage(name) == CHOOSE i \in 1..Len(Pipeline) : Pipeline[i] = name

NoQueues == [i \in 1..Len(Pipeline) |-> <<>>]

\* stage i hands item to stage i+1; what leaves the last stage leaves the pipeline
Push(qq, i, item) ==
    IF i + 1 > Len(Pipeline) THEN qq ELSE [qq EXCEPT ![i + 1] = Append(@, item)]

Pop(qq, i) == [qq EXCEPT ![i] = Tail(@)]

Ready(name) == taskState = "running" /\ q[Stage(name)] # <<>>

\* context_aggregator.user().get_context_frame(), for the n-th connect
ContextFrame(origin, id) == [kind |-> "context", origin |-> origin, id |-> id]

Idle == [state |-> "idle"]

\* a generation that was in flight when the task was cancelled
Dropped == [state |-> "dropped"]

(* -------------------------------- Init -------------------------------- *)
Init ==
    /\ messages = <<PersonaMessage>>
    /\ q = NoQueues
    /\ llm = Idle
    /\ played = <<>>
    /\ taskState = "running"
    /\ runner = "running"
    /\ awaiting = {}
    /\ live = {}
    /\ nConn = 0
    /\ nDisc = 0
    /\ nUtt = 0

(* ------------------------- the event handlers ------------------------- *)
\* OnClientConnected appending its directive only while the task is running
OnClientConnectedIfRunning(client, current_hour) ==
    /\ nConn + nUtt < MaxEvents
    /\ messages' = IF taskState = "running"
                   THEN ContextAppend(messages, DirectiveMessage(ContextMessage(current_hour)))
                   ELSE messages
    /\ awaiting' = awaiting \cup {nConn + 1}
    /\ live' = live \cup {client}
    /\ nConn' = nConn + 1
    /\ UNCHANGED <<q, llm, played, taskState, runner, nDisc, nUtt>>

\* OnClientConnected starting the history over: messages[:] = [persona, directive]
OnClientConnectedReset(client, current_hour) ==
    /\ nConn + nUtt < MaxEvents
    /\ messages' = <<PersonaMessage, DirectiveMessage(ContextMessage(current_hour))>>
    /\ awaiting' = awaiting \cup {nConn + 1}
    /\ live' = live \cup {client}
    /\ nConn' = nConn + 1
    /\ UNCHANGED <<q, llm, played, taskState, runner, nDisc, nUtt>>

\* on_client_connected up to its await: log, read the hour, choose the
\* directive, messages.append(...), build the context frame
OnClientConnected(client, current_hour) ==
    /\ nConn + nUtt < MaxEvents
    /\ messages' = ContextAppend(messages, DirectiveMessage(ContextMessage(current_hour)))
    /\ awaiting' = awaiting \cup {nConn + 1}
    /\ live' = live \cup {client}
    /\ nConn' = nConn + 1
    /\ UNCHANGED <<q, llm, played, taskState, runner, nDisc, nUtt>>

\* task.queue_frames([frame]): the frames put on the task's queue, in order
QueueFrames(qq, frames) == [qq EXCEPT ![1] = @ \o frames]

\* OnClientConnectedQueue putting the frame on the queue twice
OnClientConnectedQueueTwice(n) ==
    /\ n \in awaiting
    /\ q' = QueueFrames(q, <<ContextFrame("connect", n), ContextFrame("connect", n)>>)
    /\ awaiting' = awaiting \ {n}
    /\ UNCHANGED <<messages, llm, played, taskState, runner, live, nConn, nDisc, nUtt>>

\* OnClientConnectedQueue returning without having queued the frame
OnClientConnectedQueueDropped(n) ==
    /\ n \in awaiting
    /\ awaiting' = awaiting \ {n}
    /\ UNCHANGED <<messages, q, llm, played, taskState, runner, live, nConn, nDisc, nUtt>>

\* OnClientConnectedQueue putting the frame ahead of what is already queued
OnClientConnectedQueueJump(n) ==
    /\ n \in awaiting
    /\ q' = [q EXCEPT ![1] = <<ContextFrame("connect", n)>> \o @]
    /\ awaiting' = awaiting \ {n}
    /\ UNCHANGED <<messages, llm, played, taskState, runner, live, nConn, nDisc, nUtt>>

\* the rest of on_client_connected: await task.queue_frames([frame])
OnClientConnectedQueue(n) ==
    /\ n \in awaiting
    /\ q' = QueueFrames(q, <<ContextFrame("connect", n)>>)
    /\ awaiting' = awaiting \ {n}
    /\ UNCHANGED <<messages, llm, played, taskState, runner, live, nConn, nDisc, nUtt>>

\* task.cancel(): the stages are told to stop, the items in flight are
\* discarded and the generation in flight is dropped; a second call finds
\* nothing to do
TaskCancel ==
    IF taskState = "running"
    THEN /\ taskState' = "cancelling"
         /\ q' = NoQueues
         /\ llm' = IF llm = Idle THEN Idle ELSE Dropped
    ELSE UNCHANGED <<taskState, q, llm>>

\* OnClientDisconnected that only logs
OnClientDisconnectedLogOnly(client) ==
    /\ nDisc' = IF nDisc < 2 THEN nDisc + 1 ELSE nDisc
    /\ live' = live \ {client}
    /\ UNCHANGED <<messages, q, llm, played, taskState, runner, awaiting, nConn, nUtt>>

\* OnClientDisconnected that also leaves a closing directive in the Context
OnClientDisconnectedFarewell(client) ==
    /\ nDisc' = IF nDisc < 2 THEN nDisc + 1 ELSE nDisc
    /\ TaskCancel
    /\ messages' = Append(messages, Message("system", <<"goodbye">>))
    /\ live' = live \ {client}
    /\ UNCHANGED <<played, runner, awaiting, nConn, nUtt>>

\* OnClientDisconnected that also clears the conversation: messages.clear()
\* followed by the persona
OnClientDisconnectedClear(client) ==
    /\ nDisc' = IF nDisc < 2 THEN nDisc + 1 ELSE nDisc
    /\ TaskCancel
    /\ messages' = <<PersonaMessage>>
    /\ live' = live \ {client}
    /\ UNCHANGED <<played, runner, awaiting, nConn, nUtt>>

\* on_client_disconnected: log, await task.cancel()
OnClientDisconnected(client) ==
    /\ nDisc' = IF nDisc < 2 THEN nDisc + 1 ELSE nDisc
    /\ TaskCancel
    /\ live' = live \ {client}
    /\ UNCHANGED <<messages, played, runner, awaiting, nConn, nUtt>>

(* ------------------------------ the task ------------------------------ *)
\* the cancelled task releases its stages and ends
TaskFinish ==
    /\ taskState = "cancelling"
    /\ taskState' = "cancelled"
    /\ UNCHANGED <<messages, q, llm, played, runner, awaiting, live, nConn, nDisc, nUtt>>

\* RunnerReturn with the run not awaited
RunnerReturnNoAwait ==
    /\ runner = "running"
    /\ runner' = "done"
    /\ UNCHANGED <<messages, q, llm, played, taskState, awaiting, live, nConn, nDisc, nUtt>>

\* await runner.run(task) returns once the task has ended
RunnerReturn ==
    /\ runner = "running"
    /\ taskState = "cancelled"
    /\ runner' = "done"
    /\ UNCHANGED <<messages, q, llm, played, taskState, awaiting, live, nConn, nDisc, nUtt>>

(* ----------------------------- the stages ----------------------------- *)
\* transport.input(): what the task injected enters the pipeline
TransportInput ==
    LET i == Stage("transport.input") IN
    /\ Ready("transport.input")
    /\ q' = Push(Pop(q, i), i, Head(q[i]))
    /\ UNCHANGED <<messages, llm, played, taskState, runner, awaiting, live, nConn, nDisc, nUtt>>

\* transport.input(): the connected user speaks one utterance
AudioIn ==
    LET i == Stage("transport.input") IN
    /\ taskState = "running"
    /\ live # {}
    /\ nConn + nUtt < MaxEvents
    /\ q' = Push(q, i, [kind |-> "audio", origin |-> "user", id |-> nUtt + 1])
    /\ nUtt' = nUtt + 1
    /\ UNCHANGED <<messages, llm, played, taskState, runner, awaiting, live, nConn, nDisc>>

\* stt: the audio of an utterance becomes its final transcript
Transcribe(item) ==
    IF item.kind = "audio"
    THEN [kind |-> "transcript", origin |-> item.origin, id |-> item.id,
          text |-> Utterances[item.id]]
    ELSE item

SpeechToText ==
    LET i == Stage("stt") IN
    /\ Ready("stt")
    /\ q' = Push(Pop(q, i), i, Transcribe(Head(q[i])))
    /\ UNCHANGED <<messages, llm, played, taskState, runner, awaiting, live, nConn, nDisc, nUtt>>

\* context_aggregator.user(): a final transcript is appended as a user
\* Message and a context frame goes on; anything else passes
UserAggregator ==
    LET i == Stage("context_aggregator.user")
        item == Head(q[i]) IN
    /\ Ready("context_aggregator.user")
    /\ IF item.kind = "transcript"
       THEN /\ messages' = ContextAppend(messages, Message("user", <<item.text>>))
            /\ q' = Push(Pop(q, i), i, ContextFrame(item.origin, item.id))
       ELSE /\ messages' = messages
            /\ q' = Push(Pop(q, i), i, item)
    /\ UNCHANGED <<llm, played, taskState, runner, awaiting, live, nConn, nDisc, nUtt>>

\* llm: a context frame starts a generation on a snapshot of the Context
LLMStart ==
    LET i == Stage("llm")
        item == Head(q[i]) IN
    /\ Ready("llm")
    /\ llm.state = "idle"
    /\ IF item.kind = "context"
       THEN /\ llm' = [state |-> "generating", frame |-> item, snapshot |-> messages]
            /\ q' = Pop(q, i)
       ELSE /\ llm' = llm
            /\ q' = Push(Pop(q, i), i, item)
    /\ UNCHANGED <<messages, played, taskState, runner, awaiting, live, nConn, nDisc, nUtt>>

\* the reply to a snapshot: the opening greeting when nobody has spoken yet
Reply(snapshot) == IF CountRole(snapshot, "user") = 0 THEN "greeting" ELSE "reply"

\* llm: the generation completes and its text goes on
LLMFinish ==
    LET i == Stage("llm") IN
    /\ taskState = "running"
    /\ llm.state = "generating"
    /\ q' = Push(q, i, [kind |-> "text", origin |-> llm.frame.origin,
                        id |-> llm.frame.id, text |-> Reply(llm.snapshot)])
    /\ llm' = Idle
    /\ UNCHANGED <<messages, played, taskState, runner, awaiting, live, nConn, nDisc, nUtt>>

\* tts: text becomes speech carrying the same text
Synthesize(item) ==
    IF item.kind = "text" THEN [item EXCEPT !.kind = "speech"] ELSE item

TextToSpeech ==
    LET i == Stage("tts") IN
    /\ Ready("tts")
    /\ q' = Push(Pop(q, i), i, Synthesize(Head(q[i])))
    /\ UNCHANGED <<messages, llm, played, taskState, runner, awaiting, live, nConn, nDisc, nUtt>>

\* transport.output(): speech is sent to the speakers and goes on
TransportOutput ==
    LET i == Stage("transport.output")
        item == Head(q[i]) IN
    /\ Ready("transport.output")
    /\ played' = IF item.kind = "speech" THEN Append(played, item) ELSE played
    /\ q' = Push(Pop(q, i), i, item)
    /\ UNCHANGED <<messages, llm, taskState, runner, awaiting, live, nConn, nDisc, nUtt>>

\* context_aggregator.assistant(): a completed reply is appended as an
\* assistant Message
AssistantAggregator ==
    LET i == Stage("context_aggregator.assistant")
        item == Head(q[i]) IN
    /\ Ready("context_aggregator.assistant")
    /\ messages' = IF item.kind = "speech"
                   THEN ContextAppend(messages, Message("assistant", <<item.text>>))
                   ELSE messages
    /\ q' = Push(Pop(q, i), i, item)
    /\ UNCHANGED <<llm, played, taskState, runner, awaiting, live, nConn, nDisc, nUtt>>

(* ------------------------------- Next --------------------------------- *)
Connected == \E client \in Clients, h \in Hours : OnClientConnected(client, h)
ConnectedQueue == \E n \in 1..MaxEvents : OnClientConnectedQueue(n)
Disconnected == \E client \in Clients : OnClientDisconnected(client)

Stages ==
    \/ TransportInput
    \/ SpeechToText
    \/ UserAggregator
    \/ LLMStart
    \/ LLMFinish
    \/ TextToSpeech
    \/ TransportOutput
    \/ AssistantAggregator

Next ==
    \/ Connected
    \/ ConnectedQueue
    \/ Disconnected
    \/ TaskFinish
    \/ RunnerReturn
    \/ AudioIn
    \/ Stages

Spec == Init /\ [][Next]_vars

\* the event loop resumes a suspended handler, every stage's loop keeps
\* running, a cancelled task ends and the runner then returns; nothing
\* obliges a client to connect, to speak or to disconnect
Fairness ==
    /\ WF_vars(ConnectedQueue)
    /\ WF_vars(TaskFinish)
    /\ WF_vars(RunnerReturn)
    /\ WF_vars(TransportInput)
    /\ WF_vars(SpeechToText)
    /\ WF_vars(UserAggregator)
    /\ WF_vars(LLMStart)
    /\ WF_vars(LLMFinish)
    /\ WF_vars(TextToSpeech)
    /\ WF_vars(TransportOutput)
    /\ WF_vars(AssistantAggregator)

FairSpec == Spec /\ Fairness

(* ------------------------------ helpers ------------------------------- *)
Last(ms) == ms[Len(ms)]

\* the first system-role Message of a log
FirstSystem(ms) == ms[CHOOSE i \in 1..Len(ms) :
                        /\ ms[i].role = "system"
                        /\ \A j \in 1..(i - 1) : ms[j].role # "system"]

\* the k-th system-role Message of a log
SystemIndices(ms) == {i \in 1..Len(ms) : ms[i].role = "system"}

IsDirective(m) ==
    m.role = "system" /\ (Contains(m, OffHoursDirective) \/ Contains(m, BusinessHoursDirective))

\* how many items that stem from the n-th connect are in the queues
TriggersQueued(n) ==
    Cardinality({<<i, k>> \in (1..Len(Pipeline)) \X (1..MaxEvents + 1) :
                    /\ k <= Len(q[i])
                    /\ q[i][k].origin = "connect"
                    /\ q[i][k].id = n})

\* the generation stage holds the trigger of the n-th connect
Generating(n) ==
    /\ llm.state = "generating"
    /\ llm.frame = ContextFrame("connect", n)

(* ------------------------------- claims ------------------------------- *)

C2_FirstSystemIsDirective ==
    [][\A client \in Clients :
         /\ OnClientConnected(client, 22) =>
               Contains(FirstSystem(messages'), OffHoursDirective)
         /\ OnClientConnected(client, 10) =>
               Contains(FirstSystem(messages'), BusinessHoursDirective)
      ]_vars

\* C2 amended: after a connected event at hour 22 (hour 10) the Message at
\* the tail of the Context is a system-role Message containing the
\* off-hours (business-hours) directive; the first system-role Message, at
\* the head of the log, is still the persona Message and contains neither.
C2_DirectiveAtTail ==
    [][\A client \in Clients :
         /\ OnClientConnected(client, 22) =>
               /\ Last(messages').role = "system"
               /\ Contains(Last(messages'), OffHoursDirective)
               /\ ~Contains(Last(messages'), BusinessHoursDirective)
         /\ OnClientConnected(client, 10) =>
               /\ Last(messages').role = "system"
               /\ Contains(Last(messages'), BusinessHoursDirective)
               /\ ~Contains(Last(messages'), OffHoursDirective)
         /\ (OnClientConnected(client, 22) \/ OnClientConnected(client, 10)) =>
               /\ Len(messages') >= 2
               /\ messages'[1] = PersonaMessage
               /\ FirstSystem(messages') = PersonaMessage
               /\ ~IsDirective(FirstSystem(messages'))
      ]_vars

\* a connect has been handled: the persona is at the head, a directive
\* right behind it
C2_Witness ==
    /\ Len(messages) >= 2
    /\ messages[1] = PersonaMessage
    /\ IsDirective(messages[2])

\* C3: a connect handler appends its directive before it injects its
\* trigger, and injects exactly one: while the handler waits to inject, and
\* wherever the trigger of the n-th connect is afterwards (a queue, the
\* generation stage's snapshot), the n-th directive is already in the
\* Context; no trigger is in flight before the handler injects, and the
\* injection puts exactly that one frame on the task's queue.
C3_DirectiveBeforeTrigger ==
    /\ [](\A n \in 1..MaxEvents :
            /\ n \in awaiting =>
                 /\ Cardinality({i \in SystemIndices(messages) : IsDirective(messages[i])}) >= n
                 /\ TriggersQueued(n) = 0
                 /\ ~Generating(n)
            /\ TriggersQueued(n) > 0 =>
                 Cardinality({i \in SystemIndices(messages) : IsDirective(messages[i])}) >= n
            /\ Generating(n) =>
                 Cardinality({i \in SystemIndices(llm.snapshot) : IsDirective(llm.snapshot[i])}) >= n
            /\ TriggersQueued(n) + (IF Generating(n) THEN 1 ELSE 0) <= 1)
    /\ [][\A n \in 1..MaxEvents :
            OnClientConnectedQueue(n) =>
               /\ Len(q'[1]) = Len(q[1]) + 1
               /\ Last(q'[1]) = ContextFrame("connect", n)
               /\ TriggersQueued(n)' = 1
         ]_vars

\* the generation stage reads a snapshot for the trigger of a connect, and
\* the snapshot holds that connect's directive
C3_Witness ==
    /\ llm.state = "generating"
    /\ llm.frame.origin = "connect"
    /\ IsDirective(Last(llm.snapshot))

C5_NoAssistantAfterCancel ==
    [][/\ \A client \in Clients :
             OnClientDisconnected(client) =>
                /\ taskState' # "running"
                /\ CountRole(messages', "assistant") = CountRole(messages, "assistant")
       /\ taskState # "running" =>
             /\ taskState' # "running"
             /\ CountRole(messages', "assistant") = CountRole(messages, "assistant")
      ]_vars

\* the task was cancelled while a generation was in flight; the generation
\* was dropped and the Context holds no assistant Message
C5_Witness ==
    /\ taskState = "cancelled"
    /\ llm.state = "dropped"
    /\ CountRole(messages, "assistant") = 0

\* C6: every disconnected event takes the task out of the running state;
\* the task then reaches the cancelled state and the runner's run
\* completes, and it completes only then; from the cancel on no stage
\* processes an item.
C6_DisconnectEndsRun ==
    /\ [][\A client \in Clients : OnClientDisconnected(client) => taskState' # "running"]_vars
    /\ (taskState # "running") ~> (taskState = "cancelled" /\ runner = "done")
    /\ [](runner = "done" => taskState = "cancelled")
    /\ [][taskState # "running" =>
             /\ taskState' # "running"
             /\ UNCHANGED <<llm, played>>
             /\ \A i \in 2..Len(Pipeline) : q'[i] = q[i]
             /\ Len(q'[1]) >= Len(q[1])
             /\ CountRole(messages', "user") = CountRole(messages, "user")
             /\ CountRole(messages', "assistant") = CountRole(messages, "assistant")
         ]_vars

\* the run has completed and a trigger injected after the cancel waits on
\* the task's queue, which no stage reads any more
C6_Witness ==
    /\ runner = "done"
    /\ taskState = "cancelled"
    /\ q[1] # <<>>

\* C7: a disconnected event handled when the task has already been told to
\* cancel (the first cancel still in progress, or finished) changes
\* neither the task, nor the queues, nor the Context.
C7_CancelIdempotent ==
    [][\A client \in Clients :
         (taskState # "running" /\ OnClientDisconnected(client)) =>
            UNCHANGED <<messages, q, llm, played, taskState, runner, awaiting, nConn, nUtt>>
      ]_vars

\* a second disconnected event has been handled while the first cancel
\* was still in progress, with a Context that holds a conversation
C7_Witness ==
    /\ nDisc = 2
    /\ taskState = "cancelling"
    /\ CountRole(messages, "assistant") >= 1

\* C8 as stated: a connected event for an id that is already connected
\* appends no Message and injects no trigger.
C8_ReconnectIsNoOp ==
    [][\A client \in Clients, h \in Hours :
         (client \in live /\ OnClientConnected(client, h)) =>
            /\ messages' = messages
            /\ awaiting' = awaiting
            /\ q' = q
      ]_vars

\* C9 as stated: a disconnected event for an id that is not connected does
\* not cancel the task, does not change the Context and does not end the run.
C9_StrayDisconnectIsNoOp ==
    [][\A client \in Clients :
         (client \notin live /\ OnClientDisconnected(client)) =>
            /\ taskState' = taskState
            /\ messages' = messages
            /\ runner' = runner
      ]_vars

\* C10: every step leaves the Context it found as a prefix of the Context
\* it leaves, and the persona Message stays at position 1 (position 0 of
\* the list).
C10_AppendOnly ==
    /\ [][IsPrefix(messages, messages')]_vars
    /\ [](Len(messages) >= 1 /\ messages[1] = PersonaMessage)

\* the connect handler, both aggregators and the cancel have all acted
C10_Witness ==
    /\ taskState = "cancelled"
    /\ CountRole(messages, "system") >= 2
    /\ CountRole(messages, "user") >= 1
    /\ CountRole(messages, "assistant") >= 1

(* --------------------------- helpers, turns --------------------------- *)
\* the user-role Message of the u-th utterance
UserMessage(u) == Message("user", <<Utterances[u]>>)

CountMessage(ms, m) == Cardinality({i \in 1..Len(ms) : ms[i] = m})

\* something that stems from the u-th utterance is behind the user aggregator
PastUserAggregator(u) ==
    \/ \E j \in (Stage("context_aggregator.user") + 1)..Len(Pipeline) :
          \E k \in 1..Len(q[j]) : q[j][k].origin = "user" /\ q[j][k].id = u
    \/ llm.state = "generating" /\ llm.frame.origin = "user" /\ llm.frame.id = u
    \/ \E k \in 1..Len(played) : played[k].origin = "user" /\ played[k].id = u

\* the generation stage holds the context frame of the u-th utterance
GeneratingTurn(u) ==
    /\ llm.state = "generating"
    /\ llm.frame = ContextFrame("user", u)

C12_DisconnectCancelsOnlyItsSession ==
    [][\A client \in Clients :
         (/\ client \in live
          /\ live \ {client} # {}
          /\ taskState = "running"
          /\ OnClientDisconnected(client)) =>
            taskState' = "running"
      ]_vars

\* C13 as stated: a connected event for an id with no live session, be it
\* the first event or a connected that follows the connected and the
\* disconnected of an earlier connection, results in a running task.
C13_ConnectStartsLiveSession ==
    [][\A client \in Clients, h \in Hours :
         (/\ client \notin live
          /\ nDisc = 0 \/ (nConn = 1 /\ nDisc = 1 /\ live = {})
          /\ OnClientConnected(client, h)) =>
            taskState' = "running"
      ]_vars

(* ------------------------------- C14 ---------------------------------- *)
\* what an item and everything derived from it have in common
Ident(item) == <<item.origin, item.id>>

RECURSIVE Idents(_)
Idents(s) == IF s = <<>> THEN <<>> ELSE <<Ident(Head(s))>> \o Idents(Tail(s))

\* the item the generation stage is working on
Held == IF llm.state = "generating" THEN <<llm.frame>> ELSE <<>>

\* the items between the first stage's output and the end of the pipeline,
\* the one nearest to the end first
InFlight ==
    Idents(q[Stage("context_aggregator.assistant")] \o q[Stage("transport.output")]
           \o q[Stage("tts")] \o Held \o q[Stage("llm")]
           \o q[Stage("context_aggregator.user")] \o q[Stage("stt")])

\* the items waiting at the first stage
Queued == Idents(q[Stage("transport.input")])

\* s becomes t by nothing, by losing its head, by gaining x at its tail, or
\* by being emptied
FifoStep(s, t) ==
    \/ t = s
    \/ s # <<>> /\ t = Tail(s)
    \/ Len(t) = Len(s) + 1 /\ IsPrefix(s, t)
    \/ t = <<>>

\* C14: no step reorders items. Across the seven stages the items in flight
\* keep their relative order: a step leaves them alone, takes the one nearest
\* to the end out of the pipeline, lets one enter behind all others, or (a
\* cancel) discards them all; the first stage's queue is served the same way,
\* and what the first stage takes from its head enters behind all others;
\* every stage hands on exactly what it took, one output per item, and what
\* is played is what left the output stage, in that order.
C14_OrderPreserved ==
    [][/\ FifoStep(InFlight, InFlight')
       /\ FifoStep(Queued, Queued')
       /\ (Queued # <<>> /\ Queued' = Tail(Queued) /\ taskState' = "running") =>
             InFlight' = Append(InFlight, Head(Queued))
       /\ \A i \in 2..Len(Pipeline) :
             (q[i] # <<>> /\ q'[i] = Tail(q[i]) /\ taskState' = "running") =>
                 Idents(IF i = Stage("llm") /\ llm'.state = "generating"
                        THEN <<llm'.frame>>
                        ELSE IF i = Len(Pipeline) THEN <<Head(q[i])>>
                        ELSE <<Last(q'[i + 1])>>) = <<Ident(Head(q[i]))>>
       /\ played' # played =>
             /\ q[Stage("transport.output")] # <<>>
             /\ played' = Append(played, Head(q[Stage("transport.output")]))
      ]_vars

\* two replies, both through every stage before the last, wait there in the
\* order in which their triggers were queued
C14_Witness ==
    /\ Len(q[Stage("context_aggregator.assistant")]) = 2
    /\ Len(played) = 2
    /\ Idents(played) = Idents(q[Stage("context_aggregator.assistant")])
    /\ played[1] # played[2]

(* ------------------------------- C15 ---------------------------------- *)
\* a reply on its way that has not been synthesized yet: being generated, or
\* generated and waiting for the synthesis stage
Unsynthesized(st, qq) ==
    st.state = "generating" \/ \E k \in 1..Len(qq[Stage("tts")]) : qq[Stage("tts")][k].kind = "text"

\* C15: the disconnected handler, with its cancel, and the end of the
\* cancelled task leave the Context exactly as it was; once the task is no
\* longer running it never runs again, every Message of the Context stays
\* where it is, nothing is generated, nothing waits at a stage after the
\* first and nothing more is played, so that a reply not synthesized when
\* the cancel came is dropped and never reaches the output stage.
C15_CancelKeepsHistory ==
    [][/\ (Disconnected \/ TaskFinish) => messages' = messages /\ played' = played
       /\ taskState' # "running" =>
             /\ ~Unsynthesized(llm', q')
             /\ \A i \in 2..Len(Pipeline) : q'[i] = <<>>
             /\ (Unsynthesized(llm, q) /\ llm.state = "generating") => llm' = Dropped
       /\ taskState # "running" =>
             /\ taskState' # "running"
             /\ played' = played
             /\ IsPrefix(messages, messages')
             /\ CountRole(messages', "assistant") = CountRole(messages, "assistant")
             /\ CountRole(messages', "user") = CountRole(messages, "user")
      ]_vars

\* the user's transcript was appended, the reply to it was being generated
\* when the cancel came: the transcript is in the Context, the reply is gone
C15_Witness ==
    /\ taskState = "cancelled"
    /\ llm = Dropped
    /\ CountRole(messages, "user") = 1
    /\ Last(messages) = UserMessage(1)
    /\ \A j \in 1..Len(played) : played[j].origin # "user"

(* ------------------------------- C16 ---------------------------------- *)
\* the position in ms of its j-th Message of the given role
NthOfRole(ms, role, j) ==
    CHOOSE i \in 1..Len(ms) :
        ms[i].role = role /\ Cardinality({k \in 1..i : ms[k].role = role}) = j

\* the replies that have been played and wait for the assistant aggregator
SpeechWaiting ==
    Cardinality({k \in 1..Len(q[Stage("context_aggregator.assistant")]) :
                    q[Stage("context_aggregator.assistant")][k].kind = "speech"})

\* C16: the assistant Messages of the Context are, one for one and in order,
\* replies that have already passed the output stage: the j-th assistant
\* Message carries the text of the j-th reply played, there are never more
\* of them than replies played, and while the task runs every reply played
\* is either in the Context or waiting at the assistant aggregator; the
\* assistant Message of the reply to the u-th utterance stands behind the
\* user Message of that utterance; and a step that adds an assistant Message
\* adds exactly one, at the tail, for the played reply at the head of the
\* assistant aggregator's queue.
C16_AssistantAfterOutput ==
    /\ [](/\ CountRole(messages, "assistant") <= Len(played)
          /\ taskState = "running" =>
                CountRole(messages, "assistant") + SpeechWaiting = Len(played)
          /\ \A j \in 1..CountRole(messages, "assistant") :
                /\ j <= Len(played)
                /\ messages[NthOfRole(messages, "assistant", j)] =
                       Message("assistant", <<played[j].text>>)
                /\ played[j].origin = "user" =>
                      \E k \in 1..NthOfRole(messages, "assistant", j) - 1 :
                          messages[k] = UserMessage(played[j].id))
    /\ [][CountRole(messages', "assistant") # CountRole(messages, "assistant") =>
             /\ q[Stage("context_aggregator.assistant")] # <<>>
             /\ \E j \in 1..Len(played) :
                   played[j] = Head(q[Stage("context_aggregator.assistant")])
             /\ messages' = Append(messages,
                   Message("assistant", <<Head(q[Stage("context_aggregator.assistant")]).text>>))
             /\ played' = played
          ]_vars

\* a whole turn: the user Message of the first utterance, then the assistant
\* Message of the reply to it, which has been played
C16_Witness ==
    /\ \E j \in 1..Len(played) : played[j].origin = "user" /\ played[j].id = 1
    /\ Last(messages) = Message("assistant", <<"reply">>)
    /\ CountRole(messages, "assistant") = Len(played)
    /\ CountMessage(messages, UserMessage(1)) = 1

(* ------------------------------- C17 ---------------------------------- *)
\* C17: the Context holds one system Message more than connected events have
\* been handled (the persona), and its first Message is the persona; every
\* connected event, handled while the task runs or after it was cancelled,
\* adds exactly one directive at the tail and keeps all that was there; no
\* step takes anything out of the Context; and the snapshot a generation
\* works on holds the persona and the directives of all connections up to
\* the one that triggered it.
C17_SystemMessagesCountConnects ==
    /\ [](/\ CountRole(messages, "system") = 1 + nConn
          /\ messages[1] = PersonaMessage
          /\ \A n \in 1..MaxEvents :
                Generating(n) =>
                   /\ llm.snapshot[1] = PersonaMessage
                   /\ CountRole(llm.snapshot, "system") >= 1 + n
                   /\ IsPrefix(llm.snapshot, messages))
    /\ [][/\ IsPrefix(messages, messages')
          /\ \A client \in Clients, h \in Hours :
                OnClientConnected(client, h) =>
                   /\ nConn' = nConn + 1
                   /\ Len(messages') = Len(messages) + 1
                   /\ IsDirective(Last(messages'))
                   /\ CountRole(messages', "system") = CountRole(messages, "system") + 1
         ]_vars

\* both ids are connected although a disconnected event was handled: that
\* event came before the second connected event, which found the task
\* cancelled and still appended its directive
C17_Witness ==
    /\ live = Clients
    /\ nConn = 2
    /\ nDisc = 1
    /\ taskState = "cancelled"
    /\ CountRole(messages, "system") = 3
    /\ IsDirective(Last(messages))

=============================================================================
